---- MODULE Spec2Model ----
(***************************************************************************)
(* Model of the Terraform resource handlers of the AWS IoT Analytics       *)
(* channel and datastore resources (resource_aws_iotanalytics_channel.go,  *)
(* resource_aws_iotanalytics_datastore.go): Create and Update wrap the     *)
(* remote mutating call in a fixed-schedule retry loop, then re-read the   *)
(* resource.                                                               *)
(*                                                                         *)
(* One handler runs at a time (the host drives one operation per resource  *)
(* instance).  The remote API is the environment: every call returns       *)
(* either success (NoErr) or one of the error values in Errors.            *)
(***************************************************************************)
EXTENDS Integers, Sequences, FiniteSets, TLC

VARIABLES
    pc,         \* position of the running handler
    handler,    \* which handler is running
    name,       \* d.Get("name") of the resource the handler works on
    id,         \* d.Id()
    i,          \* 1-based index of the range loop over retrySecondsList
    err,        \* the handler's local variable err
    inflight,   \* number of remote mutating calls issued and not yet returned
    calls,      \* history: remote mutating calls issued in this run
    results,    \* history: what each attempt of this run returned
    slept,      \* history: the durations passed to time.Sleep in this run
    clock,      \* seconds this run has spent sleeping so far
    startedAt,  \* history: clock value at which each attempt was issued
    ret,        \* the handler's return value, Pending until it returns
    prev,       \* summary of the previous handler run, NoRun before the second
    trace,      \* history: the remote calls of this run that have returned
    cfg,        \* what the running handler reads from its configuration and
                \* from the environment
    group_id,   \* d.Get("group_id") of a Greengrass group
    params,     \* the request structure of the retried call
    attrs,      \* the attributes of the resource state that Read writes
    cpc,        \* attribute codec: stage of the round trip
    ckind,      \* attribute codec: the block being converted
    craw,       \* attribute codec: the configured attribute map
    csent,      \* attribute codec: the request structure built from craw
    cout        \* attribute codec: the attribute map a read writes back

\* state of the handler that is running
hvars == <<pc, handler, name, id, i, err, inflight, calls, results, slept,
           clock, startedAt, ret, prev, trace, cfg, group_id, params, attrs>>

\* state of the attribute codec
cvars == <<cpc, ckind, craw, csent, cout>>

vars == <<pc, handler, name, id, i, err, inflight, calls, results, slept,
          clock, startedAt, ret, prev, trace, cfg, group_id, params, attrs,
          cpc, ckind, craw, csent, cout>>

----------------------------------------------------------------------------
(* Values *)

NoErr == "nil"

\* error values the remote API can return: a permission error, a validation
\* error and a transient error
Errors == {"AccessDenied", "InvalidRequest", "Throttling"}

Pending == "pending"

NoId == ""

\* no handler has run before
NoRun == [pattern |-> <<>>, calls |-> 0, slept |-> <<>>, err |-> "nil"]

\* the resource instance the host operates on
Names == {"alpha"}

\* the handlers whose remote mutating call is retried
CreateHandlers == {"ChannelCreate", "DatastoreCreate"}

UpdateHandlers == {"ChannelUpdate", "DatastoreUpdate"}

RetriedHandlers == CreateHandlers \cup UpdateHandlers

\* a handler that reads neither a version block nor the environment
NoCfg == [version |-> FALSE, changed |-> FALSE, env |-> "unset"]

\* an absent pointer field of a request or response structure
Nil == "null"

\* one remote call: the API, the resource it addresses, the idempotency
\* token it carries (Nil when the request has none), the error it returned
\* and the ID in its response (Nil when the handler reads none)
Call(api, key, token, res) ==
    [api |-> api, key |-> key, token |-> token, res |-> res, out |-> Nil]

\* conn.CreateChannel, conn.UpdateChannel, conn.CreateDatastore, ...
MutatingApi(h) ==
    CASE h = "ChannelCreate" -> "CreateChannel"
      [] h = "ChannelUpdate" -> "UpdateChannel"
      [] h = "DatastoreCreate" -> "CreateDatastore"
      [] h = "DatastoreUpdate" -> "UpdateDatastore"
      [] h = "DatasetCreate" -> "CreateDataset"
      [] h = "DatasetUpdate" -> "UpdateDataset"
      [] h = "GroupCreate" -> "CreateGroup"
      [] h = "GroupUpdate" -> "UpdateGroup"
      [] h = "LoggerDefinitionCreate" -> "CreateLoggerDefinition"
      [] h = "LoggerDefinitionUpdate" -> "UpdateLoggerDefinition"

\* conn.DescribeChannel, conn.DescribeDatastore, ... of the Read handlers
ReadApi(h) ==
    CASE h \in {"ChannelCreate", "ChannelUpdate"} -> "DescribeChannel"
      [] h \in {"DatastoreCreate", "DatastoreUpdate"} -> "DescribeDatastore"
      [] h \in {"DatasetCreate", "DatasetUpdate"} -> "DescribeDataset"
      [] h \in {"GroupCreate", "GroupUpdate"} -> "GetGroup"
      [] h \in {"LoggerDefinitionCreate", "LoggerDefinitionUpdate"}
            -> "GetLoggerDefinition"

\* the value an attribute had when the handler was invoked, and the value
\* the response of a remote read holds
Prior == "prior"

Remote == "remote"

\* the attributes Read writes with d.Set: those taken from the response of
\* the describe/get call (name, arn, storage, retention_period, ...) and
\* those taken from the response of the version call (group_version,
\* logger_definition_version, latest_definition_version_arn)
PriorAttrs == [described |-> Prior, version |-> Prior]

\* no request has been built
NoParams == [api |-> Nil, name |-> NoId]

\* params := &iotanalytics.CreateChannelInput{ChannelName: aws.String(name)}
\* and its counterparts in the other three handlers
BuildParams(h, n) == [api |-> MutatingApi(h), name |-> n]

\* variants of the schedule: doubling delays, the zero entry first, the zero
\* entry left out
retrySecondsListDoubling == <<1, 2, 4, 8, 16, 0>>

retrySecondsListShifted == <<0, 1, 2, 5, 8, 10>>

retrySecondsListFive == <<1, 2, 5, 8, 10>>

\* variant: the datastore update loop got a schedule of its own
retrySecondsListOfDiverged(h) ==
    IF h = "DatastoreUpdate" THEN <<1, 2, 5, 10, 15, 0>>
    ELSE <<1, 2, 5, 8, 10, 0>>

\* retrySecondsList := [6]int{1, 2, 5, 8, 10, 0}, written out in each of the
\* four handlers
retrySecondsListOf(h) ==
    CASE h = "ChannelCreate" -> <<1, 2, 5, 8, 10, 0>>
      [] h = "ChannelUpdate" -> <<1, 2, 5, 8, 10, 0>>
      [] h = "DatastoreCreate" -> <<1, 2, 5, 8, 10, 0>>
      [] h = "DatastoreUpdate" -> <<1, 2, 5, 8, 10, 0>>

\* variant: a delay after the last attempt as well
retrySecondsListTrailingTen == <<1, 2, 5, 8, 10, 10>>

\* the retrySecondsList of the running handler
retrySecondsList == retrySecondsListOf(handler)

\* the range loop has another iteration at index k
LoopHasNext(k) == k <= Len(retrySecondsList)

\* variants of the break condition: never leaving the loop early, leaving it
\* on a validation error as well, leaving it on failure instead of success
BreaksNever(e) == FALSE

BreaksOnValidation(e) == e = NoErr \/ e = "InvalidRequest"

BreaksInverted(e) == e # NoErr

\* if err == nil { break }
Breaks(e) == e = NoErr

\* variant: the delay of the following iteration
sleepSecondsOffByOne(k) ==
    retrySecondsList[IF k < Len(retrySecondsList) THEN k + 1 ELSE k]

\* sleepSeconds of iteration k
sleepSeconds(k) == retrySecondsList[k]

\* variant: the first error observed is kept
ReturnsFirstErr == results[1]

\* if err != nil { return err }
ReturnedErr == err

\* variant: Read looks the resource up by its name
ReadKeyIsName == name

\* the resource a Read names: ChannelName, DatasetName, GroupId, ... are
\* aws.String(d.Id())
ReadKey == id

RECURSIVE SumSeq(_)
SumSeq(s) == IF s = <<>> THEN 0 ELSE Head(s) + SumSeq(Tail(s))

\* success/failure pattern of a sequence of attempt results
Pattern(rs) == [k \in 1..Len(rs) |-> rs[k] = NoErr]

\* what a finished run leaves behind for comparison with the next one
Summary ==
    [pattern |-> Pattern(results), calls |-> calls, slept |-> slept, err |-> err]

----------------------------------------------------------------------------
(* Handler steps *)

Init ==
    /\ pc = "idle"
    /\ handler \in RetriedHandlers
    /\ name \in Names
    /\ id = NoId
    /\ i = 1
    /\ err = NoErr
    /\ inflight = 0
    /\ calls = 0
    /\ results = <<>>
    /\ slept = <<>>
    /\ clock = 0
    /\ startedAt = <<>>
    /\ ret = Pending
    /\ prev = NoRun
    /\ trace = <<>>
    /\ cfg = NoCfg
    /\ group_id = NoId
    /\ params = NoParams
    /\ attrs = PriorAttrs
    /\ cpc = "idle"
    /\ ckind = "none"
    /\ craw = <<>>
    /\ csent = <<>>
    /\ cout = <<>>

\* variant: the loop index outlives the invocation
StartKeepsLoopIndex(h, n) ==
    /\ pc \in {"idle", "done"}
    /\ handler' = h
    /\ name' = n
    /\ id' = IF h \in CreateHandlers THEN NoId ELSE n
    /\ i' = i
    /\ err' = NoErr
    /\ inflight' = 0
    /\ calls' = 0
    /\ results' = <<>>
    /\ slept' = <<>>
    /\ clock' = 0
    /\ startedAt' = <<>>
    /\ ret' = Pending
    /\ prev' = IF pc = "done" THEN Summary ELSE prev
    /\ pc' = "loop"
    /\ trace' = <<>>
    /\ cfg' = NoCfg
    /\ group_id' = NoId
    /\ params' = BuildParams(h, n)
    /\ attrs' = PriorAttrs
    /\ UNCHANGED cvars

\* The host invokes a handler: params are built, retrySecondsList and err are
\* fresh locals, the loop is entered at its first element.
Start(h, n) ==
    /\ pc \in {"idle", "done"}
    /\ handler' = h
    /\ name' = n
    /\ id' = IF h \in CreateHandlers THEN NoId ELSE n
    /\ i' = 1
    /\ err' = NoErr
    /\ inflight' = 0
    /\ calls' = 0
    /\ results' = <<>>
    /\ slept' = <<>>
    /\ clock' = 0
    /\ startedAt' = <<>>
    /\ ret' = Pending
    /\ prev' = IF pc = "done" THEN Summary ELSE prev
    /\ pc' = "loop"
    /\ trace' = <<>>
    /\ cfg' = NoCfg
    /\ group_id' = NoId
    /\ params' = BuildParams(h, n)
    /\ attrs' = PriorAttrs
    /\ UNCHANGED cvars

\* err = nil; _, err = conn.CreateChannel(params): the call is issued
Invoke ==
    /\ pc = "loop"
    /\ LoopHasNext(i)
    /\ err' = NoErr
    /\ inflight' = inflight + 1
    /\ calls' = calls + 1
    /\ startedAt' = Append(startedAt, clock)
    /\ pc' = "inflight"
    /\ UNCHANGED <<handler, name, id, i, results, slept, clock, ret, prev>>
    /\ UNCHANGED <<trace, cfg, group_id>>
    /\ UNCHANGED <<params, attrs>>
    /\ UNCHANGED cvars

\* variant: a failed attempt leaves an empty request behind
ReturnResetsParams(r) ==
    /\ pc = "inflight"
    /\ err' = r
    /\ inflight' = inflight - 1
    /\ results' = Append(results, r)
    /\ pc' = IF Breaks(r) THEN "after" ELSE "sleep"
    /\ trace' = Append(trace, Call(params.api, params.name, Nil, r))
    /\ params' = IF Breaks(r) THEN params ELSE [params EXCEPT !.name = NoId]
    /\ UNCHANGED attrs
    /\ UNCHANGED <<handler, name, id, i, calls, slept, clock, startedAt, ret, prev>>
    /\ UNCHANGED <<cfg, group_id>>
    /\ UNCHANGED cvars

\* variant: a failed attempt goes on to the next one without sleeping
ReturnSkipsSleep(r) ==
    /\ pc = "inflight"
    /\ err' = r
    /\ inflight' = inflight - 1
    /\ results' = Append(results, r)
    /\ i' = IF Breaks(r) THEN i ELSE i + 1
    /\ pc' = IF Breaks(r) \/ ~LoopHasNext(i + 1) THEN "after" ELSE "loop"
    /\ trace' = Append(trace, Call(params.api, params.name, Nil, r))
    /\ UNCHANGED <<handler, name, id, calls, slept, clock, startedAt, ret, prev>>
    /\ UNCHANGED <<cfg, group_id>>
    /\ UNCHANGED <<params, attrs>>
    /\ UNCHANGED cvars

\* the call returns r; if err == nil { break }
Return(r) ==
    /\ pc = "inflight"
    /\ err' = r
    /\ inflight' = inflight - 1
    /\ results' = Append(results, r)
    /\ pc' = IF Breaks(r) THEN "after" ELSE "sleep"
    /\ trace' = Append(trace, Call(params.api, params.name, Nil, r))
    /\ UNCHANGED <<handler, name, id, i, calls, slept, clock, startedAt, ret, prev>>
    /\ UNCHANGED <<cfg, group_id>>
    /\ UNCHANGED <<params, attrs>>
    /\ UNCHANGED cvars

\* variant: the loop retries with the last delay until the call succeeds
SleepRetriesForever ==
    /\ pc = "sleep"
    /\ slept' = Append(slept, sleepSeconds(i))
    /\ clock' = clock + sleepSeconds(i)
    /\ i' = IF LoopHasNext(i + 1) THEN i + 1 ELSE i
    /\ pc' = "loop"
    /\ UNCHANGED <<handler, name, id, err, inflight, calls, results, startedAt,
                   ret, prev>>
    /\ UNCHANGED <<trace, cfg, group_id>>
    /\ UNCHANGED <<params, attrs>>
    /\ UNCHANGED cvars

\* time.Sleep(time.Duration(sleepSeconds) * time.Second), then the range loop
\* advances and ends after the last element
Sleep ==
    /\ pc = "sleep"
    /\ slept' = Append(slept, sleepSeconds(i))
    /\ clock' = clock + sleepSeconds(i)
    /\ i' = i + 1
    /\ pc' = IF LoopHasNext(i + 1) THEN "loop" ELSE "after"
    /\ UNCHANGED <<handler, name, id, err, inflight, calls, results, startedAt,
                   ret, prev>>
    /\ UNCHANGED <<trace, cfg, group_id>>
    /\ UNCHANGED <<params, attrs>>
    /\ UNCHANGED cvars

\* variant: the resource ID is set before the error of the loop is looked at
AfterLoopSetsIdFirst ==
    /\ pc = "after"
    /\ id' = IF handler \in CreateHandlers THEN name ELSE id
    /\ IF err # NoErr
       THEN /\ ret' = ReturnedErr
            /\ pc' = "done"
       ELSE /\ ret' = ret
            /\ pc' = "read"
    /\ UNCHANGED <<handler, name, i, err, inflight, calls, results, slept,
                   clock, startedAt, prev>>
    /\ UNCHANGED <<trace, cfg, group_id>>
    /\ UNCHANGED <<params, attrs>>
    /\ UNCHANGED cvars

\* if err != nil { return err }; d.SetId(d.Get("name")) in Create; then Read
AfterLoop ==
    /\ pc = "after"
    /\ IF err # NoErr
       THEN /\ ret' = ReturnedErr
            /\ pc' = "done"
            /\ id' = id
       ELSE /\ ret' = ret
            /\ pc' = "read"
            /\ id' = IF handler \in CreateHandlers THEN name ELSE id
    /\ UNCHANGED <<handler, name, i, err, inflight, calls, results, slept,
                   clock, startedAt, prev>>
    /\ UNCHANGED <<trace, cfg, group_id>>
    /\ UNCHANGED <<params, attrs>>
    /\ UNCHANGED cvars

\* variant: a failed describe call takes the resource out of the state
ReadClearsIdOnError(r) ==
    /\ pc = "read"
    /\ ret' = r
    /\ pc' = "done"
    /\ trace' = Append(trace, Call(ReadApi(handler), ReadKey, Nil, r))
    /\ id' = IF r # NoErr THEN NoId ELSE id
    /\ attrs' = IF r # NoErr THEN attrs ELSE [attrs EXCEPT !.described = Remote]
    /\ UNCHANGED <<handler, name, i, err, inflight, calls, results, slept,
                   clock, startedAt, prev>>
    /\ UNCHANGED <<cfg, group_id>>
    /\ UNCHANGED params
    /\ UNCHANGED cvars

\* resourceAwsIotAnalyticsChannelRead: DescribeChannel returns r, which is
\* the handler's return value; if err != nil { return err } comes before
\* the d.Set calls that copy the response into the attributes
Read(r) ==
    /\ pc = "read"
    /\ ret' = r
    /\ pc' = "done"
    /\ trace' = Append(trace, Call(ReadApi(handler), ReadKey, Nil, r))
    /\ attrs' = IF r # NoErr THEN attrs ELSE [attrs EXCEPT !.described = Remote]
    /\ UNCHANGED <<handler, name, id, i, err, inflight, calls, results, slept,
                   clock, startedAt, prev>>
    /\ UNCHANGED <<cfg, group_id>>
    /\ UNCHANGED params
    /\ UNCHANGED cvars

Next ==
    \/ \E h \in RetriedHandlers, n \in Names : Start(h, n)
    \/ Invoke
    \/ \E r \in {NoErr} \cup Errors : Return(r)
    \/ Sleep
    \/ AfterLoop
    \/ \E r \in {NoErr} \cup Errors : Read(r)

Spec == Init /\ [][Next]_vars

----------------------------------------------------------------------------
(* Handlers that call the remote API once: dataset, Greengrass group and     *)
(* Greengrass logger definition, and the Delete handler of all resources     *)

DatasetHandlers == {"DatasetCreate", "DatasetUpdate"}

GroupHandlers == {"GroupCreate", "GroupUpdate"}

LoggerDefinitionHandlers == {"LoggerDefinitionCreate", "LoggerDefinitionUpdate"}

GreengrassHandlers == GroupHandlers \cup LoggerDefinitionHandlers

DeleteHandlers ==
    {"ChannelDelete", "DatastoreDelete", "DatasetDelete", "GroupDelete",
     "LoggerDefinitionDelete"}

DirectCreateHandlers == {"DatasetCreate", "GroupCreate", "LoggerDefinitionCreate"}

DirectHandlers == DatasetHandlers \cup GreengrassHandlers \cup DeleteHandlers

\* resources whose ID is assigned by the remote API
RemoteIdHandlers ==
    GreengrassHandlers \cup {"GroupDelete", "LoggerDefinitionDelete"}

\* IDs the remote API assigns
Ids == {"id-1", "id-2"}

\* the ID of the existing resource a handler is invoked on: none for Create,
\* the name for a channel, datastore or dataset, a remote ID for the others
ExistingIds(h, n) ==
    IF h \in DirectCreateHandlers THEN {NoId}
    ELSE IF h \in RemoteIdHandlers THEN {"id-1"}
    ELSE {n}

\* the AMZN_CLIENT_TOKEN environment variable: not set, set to the empty
\* string, set to a token
Unset == "unset"

EnvValues == {Unset, "", "token-1"}

\* os.Getenv: the value of the variable, "" when it is not set
Getenv(e) == IF e = Unset THEN "" ELSE e

\* version IDs the remote API reports as the latest version
Versions == {"version-1"}

\* what a handler reads: whether the version block holds an element, whether
\* d.HasChange reports the block as changed, and the environment
Cfgs(h) ==
    IF h \in {"GroupCreate", "LoggerDefinitionCreate"}
    THEN {[version |-> v, changed |-> FALSE, env |-> e] :
             v \in BOOLEAN, e \in EnvValues}
    ELSE IF h \in {"GroupUpdate", "LoggerDefinitionUpdate"}
    THEN {[version |-> v, changed |-> c, env |-> e] :
             v \in BOOLEAN, c \in BOOLEAN, e \in EnvValues}
    ELSE {NoCfg}

\* conn.DeleteChannel, conn.DeleteDatastore, ...
DeleteApi(h) ==
    CASE h = "ChannelDelete" -> "DeleteChannel"
      [] h = "DatastoreDelete" -> "DeleteDatastore"
      [] h = "DatasetDelete" -> "DeleteDataset"
      [] h = "GroupDelete" -> "DeleteGroup"
      [] h = "LoggerDefinitionDelete" -> "DeleteLoggerDefinition"

\* conn.CreateGroupVersion, conn.CreateLoggerDefinitionVersion
VersionApi(h) ==
    IF h \in GroupHandlers THEN "CreateGroupVersion"
    ELSE "CreateLoggerDefinitionVersion"

\* conn.GetGroupVersion, conn.GetLoggerDefinitionVersion
ReadVersionApi(h) ==
    IF h \in GroupHandlers THEN "GetGroupVersion"
    ELSE "GetLoggerDefinitionVersion"

\* the resource the create/update request names: DatasetName and Name are
\* d.Get("name"), GroupId is d.Get("group_id"), LoggerDefinitionId is d.Id()
MutateKey(h) ==
    CASE h = "GroupUpdate" -> group_id
      [] h = "LoggerDefinitionUpdate" -> id
      [] OTHER -> name

\* the resource the delete request names: d.Get("group_id") for a group,
\* d.Id() for the others
DeleteKey(h) == IF h = "GroupDelete" THEN group_id ELSE id

\* variant: the token is set whatever os.Getenv returned
AmznClientTokenAlways(v) == v

\* if v := os.Getenv("AMZN_CLIENT_TOKEN"); v != "" { params.AmznClientToken = v }
AmznClientToken(v) == IF v # "" THEN v ELSE Nil

\* what Delete returns when the remote delete returned r:
\* resourceAwsGreengrassGroupDelete returns nil in both branches, the others
\* return err
DeleteReturn(h, r) == IF h = "GroupDelete" THEN NoErr ELSE r

\* The host invokes a handler on a resource instance: Create starts without
\* an ID, the others with the ID e (and group_id) of the existing resource.
\* The handler keeps its own err; the variables of the retry loop stay as
\* they are at the start of any handler.
DirectStart(h, n, e, c) ==
    /\ pc \in {"idle", "done"}
    /\ handler' = h
    /\ name' = n
    /\ id' = e
    /\ group_id' = IF h \in {"GroupUpdate", "GroupDelete"} THEN e ELSE NoId
    /\ cfg' = c
    /\ i' = 1
    /\ err' = NoErr
    /\ inflight' = 0
    /\ calls' = 0
    /\ results' = <<>>
    /\ slept' = <<>>
    /\ clock' = 0
    /\ startedAt' = <<>>
    /\ ret' = Pending
    /\ trace' = <<>>
    /\ pc' = IF h \in DeleteHandlers THEN "delete" ELSE "mutate"
    /\ params' = NoParams
    /\ attrs' = PriorAttrs
    /\ UNCHANGED prev
    /\ UNCHANGED cvars

\* variant: a throttled create/update call is made a second time
DirectMutateRetriesOnce(r, newId) ==
    /\ pc = "mutate"
    /\ trace' = Append(trace,
                        [Call(MutatingApi(handler), MutateKey(handler), Nil, r)
                            EXCEPT !.out =
                                IF r = NoErr /\ handler \in {"GroupCreate",
                                                             "LoggerDefinitionCreate"}
                                THEN newId ELSE Nil])
    /\ IF r # NoErr
       THEN /\ ret' = IF r = "Throttling" /\ trace = <<>> THEN ret ELSE r
            /\ pc' = IF r = "Throttling" /\ trace = <<>> THEN "mutate" ELSE "done"
            /\ id' = id
       ELSE /\ ret' = ret
            /\ id' = CASE handler = "DatasetCreate" -> name
                       [] handler \in {"GroupCreate", "LoggerDefinitionCreate"} -> newId
                       [] OTHER -> id
            /\ pc' = CASE handler \in DatasetHandlers -> "read"
                       [] handler \in {"GroupCreate", "LoggerDefinitionCreate"} -> "version"
                       [] OTHER -> IF cfg.changed THEN "version" ELSE "ggread"
    /\ UNCHANGED <<handler, name, i, err, inflight, calls, results, slept, clock,
                   startedAt, prev, cfg, group_id>>
    /\ UNCHANGED <<params, attrs>>
    /\ UNCHANGED cvars

\* variant: Update creates a version whether or not the block has changed
DirectMutateAlwaysVersions(r, newId) ==
    /\ pc = "mutate"
    /\ trace' = Append(trace,
                        [Call(MutatingApi(handler), MutateKey(handler), Nil, r)
                            EXCEPT !.out =
                                IF r = NoErr /\ handler \in {"GroupCreate",
                                                             "LoggerDefinitionCreate"}
                                THEN newId ELSE Nil])
    /\ IF r # NoErr
       THEN /\ ret' = r
            /\ pc' = "done"
            /\ id' = id
       ELSE /\ ret' = ret
            /\ id' = CASE handler = "DatasetCreate" -> name
                       [] handler \in {"GroupCreate", "LoggerDefinitionCreate"} -> newId
                       [] OTHER -> id
            /\ pc' = CASE handler \in DatasetHandlers -> "read"
                       [] OTHER -> "version"
    /\ UNCHANGED <<handler, name, i, err, inflight, calls, results, slept, clock,
                   startedAt, prev, cfg, group_id>>
    /\ UNCHANGED <<params, attrs>>
    /\ UNCHANGED cvars

\* _, err := conn.CreateDataset(params) / out, err := conn.CreateGroup(params)
\* / conn.UpdateGroup(params) ...: if err != nil { return err }; Create then
\* sets the ID: the name for a dataset, *out.Id for a group or logger
\* definition.
DirectMutate(r, newId) ==
    /\ pc = "mutate"
    /\ trace' = Append(trace,
                        [Call(MutatingApi(handler), MutateKey(handler), Nil, r)
                            EXCEPT !.out =
                                IF r = NoErr /\ handler \in {"GroupCreate",
                                                             "LoggerDefinitionCreate"}
                                THEN newId ELSE Nil])
    /\ IF r # NoErr
       THEN /\ ret' = r
            /\ pc' = "done"
            /\ id' = id
       ELSE /\ ret' = ret
            /\ id' = CASE handler = "DatasetCreate" -> name
                       [] handler \in {"GroupCreate", "LoggerDefinitionCreate"} -> newId
                       [] OTHER -> id
            /\ pc' = CASE handler \in DatasetHandlers -> "read"
                       [] handler \in {"GroupCreate", "LoggerDefinitionCreate"} -> "version"
                       [] OTHER -> IF cfg.changed THEN "version" ELSE "ggread"
    /\ UNCHANGED <<handler, name, i, err, inflight, calls, results, slept, clock,
                   startedAt, prev, cfg, group_id>>
    /\ UNCHANGED <<params, attrs>>
    /\ UNCHANGED cvars

\* variant: the version-creation call is made for an empty block as well
CreateVersionEmptyCallsRemote ==
    /\ pc = "version"
    /\ ~cfg.version
    /\ trace' = Append(trace, Call(VersionApi(handler), id,
                                   AmznClientToken(Getenv(cfg.env)), NoErr))
    /\ pc' = "ggread"
    /\ UNCHANGED <<handler, name, id, i, err, inflight, calls, results, slept, clock,
                   startedAt, ret, prev, cfg, group_id>>
    /\ UNCHANGED <<params, attrs>>
    /\ UNCHANGED cvars

\* createGroupVersion / createLoggerDefinitionVersion with an empty version
\* block: return nil without a remote call
CreateVersionEmpty ==
    /\ pc = "version"
    /\ ~cfg.version
    /\ pc' = "ggread"
    /\ UNCHANGED <<handler, name, id, i, err, inflight, calls, results, slept, clock,
                   startedAt, ret, prev, trace, cfg, group_id>>
    /\ UNCHANGED <<params, attrs>>
    /\ UNCHANGED cvars

\* variant: the error of the version-creation call is dropped
CreateVersionIgnoresError(r) ==
    /\ pc = "version"
    /\ cfg.version
    /\ trace' = Append(trace, Call(VersionApi(handler), id,
                                   AmznClientToken(Getenv(cfg.env)), r))
    /\ ret' = ret
    /\ pc' = "ggread"
    /\ UNCHANGED <<handler, name, id, i, err, inflight, calls, results, slept,
                   clock, startedAt, prev, cfg, group_id>>
    /\ UNCHANGED <<params, attrs>>
    /\ UNCHANGED cvars

\* variant: a failed version creation takes the resource ID back
CreateVersionClearsId(r) ==
    /\ pc = "version"
    /\ cfg.version
    /\ trace' = Append(trace, Call(VersionApi(handler), id,
                                   AmznClientToken(Getenv(cfg.env)), r))
    /\ IF r # NoErr
       THEN ret' = r /\ pc' = "done" /\ id' = NoId
       ELSE ret' = ret /\ pc' = "ggread" /\ id' = id
    /\ UNCHANGED <<handler, name, i, err, inflight, calls, results, slept,
                   clock, startedAt, prev, cfg, group_id>>
    /\ UNCHANGED <<params, attrs>>
    /\ UNCHANGED cvars

\* createGroupVersion / createLoggerDefinitionVersion with a version block:
\* the request names d.Id(), carries the client token if there is one, and
\* its error is returned
CreateVersion(r) ==
    /\ pc = "version"
    /\ cfg.version
    /\ trace' = Append(trace, Call(VersionApi(handler), id,
                                   AmznClientToken(Getenv(cfg.env)), r))
    /\ IF r # NoErr
       THEN ret' = r /\ pc' = "done"
       ELSE ret' = ret /\ pc' = "ggread"
    /\ UNCHANGED <<handler, name, id, i, err, inflight, calls, results, slept,
                   clock, startedAt, prev, cfg, group_id>>
    /\ UNCHANGED <<params, attrs>>
    /\ UNCHANGED cvars

\* resourceAwsGreengrassGroupRead / resourceAwsGreengrassLoggerDefinitionRead:
\* GetGroup(d.Id()) returns r and, on success, the latest version (Nil when
\* there is none); arn and name, and the group's group_id, are set from the
\* response, then the version is fetched if there is one
GreengrassRead(r, latest) ==
    /\ pc = "ggread"
    /\ trace' = Append(trace,
                        [Call(ReadApi(handler), ReadKey, Nil, r)
                            EXCEPT !.out = IF r = NoErr THEN latest ELSE Nil])
    /\ IF r # NoErr
       THEN ret' = r /\ pc' = "done" /\ group_id' = group_id /\ attrs' = attrs
       ELSE /\ group_id' = IF handler \in GroupHandlers THEN id ELSE group_id
            /\ attrs' = [attrs EXCEPT !.described = Remote]
            /\ IF latest # Nil
               THEN ret' = ret /\ pc' = "ggversion"
               ELSE ret' = NoErr /\ pc' = "done"
    /\ UNCHANGED <<handler, name, id, i, err, inflight, calls, results, slept,
                   clock, startedAt, prev, cfg>>
    /\ UNCHANGED params
    /\ UNCHANGED cvars

\* variant: Read succeeds although the version could not be fetched
GreengrassReadVersionIgnoresError(r) ==
    /\ pc = "ggversion"
    /\ trace' = Append(trace, Call(ReadVersionApi(handler), ReadKey, Nil, r))
    /\ ret' = NoErr
    /\ pc' = "done"
    /\ attrs' = IF r # NoErr THEN attrs ELSE [attrs EXCEPT !.version = Remote]
    /\ UNCHANGED <<handler, name, id, i, err, inflight, calls, results, slept,
                   clock, startedAt, prev, cfg, group_id>>
    /\ UNCHANGED params
    /\ UNCHANGED cvars

\* readGroupVersion / setLoggerDefinitionVersion: the version is fetched; its
\* error, if any, is what Read returns, otherwise the version attributes are
\* set from the response
GreengrassReadVersion(r) ==
    /\ pc = "ggversion"
    /\ trace' = Append(trace, Call(ReadVersionApi(handler), ReadKey, Nil, r))
    /\ ret' = r
    /\ pc' = "done"
    /\ attrs' = IF r # NoErr THEN attrs ELSE [attrs EXCEPT !.version = Remote]
    /\ UNCHANGED <<handler, name, id, i, err, inflight, calls, results, slept,
                   clock, startedAt, prev, cfg, group_id>>
    /\ UNCHANGED params
    /\ UNCHANGED cvars

\* the Delete handlers: one remote delete call
DirectDelete(r) ==
    /\ pc = "delete"
    /\ trace' = Append(trace, Call(DeleteApi(handler), DeleteKey(handler), Nil, r))
    /\ ret' = DeleteReturn(handler, r)
    /\ pc' = "done"
    /\ UNCHANGED <<handler, name, id, i, err, inflight, calls, results, slept,
                   clock, startedAt, prev, cfg, group_id>>
    /\ UNCHANGED <<params, attrs>>
    /\ UNCHANGED cvars

DirectNext ==
    \/ \E h \in DirectHandlers, n \in Names :
           \E e \in ExistingIds(h, n), c \in Cfgs(h) : DirectStart(h, n, e, c)
    \/ \E r \in {NoErr} \cup Errors, newId \in Ids : DirectMutate(r, newId)
    \/ CreateVersionEmpty
    \/ \E r \in {NoErr} \cup Errors : CreateVersion(r)
    \/ \E r \in {NoErr} \cup Errors, latest \in {Nil} \cup Versions :
           GreengrassRead(r, latest)
    \/ \E r \in {NoErr} \cup Errors : GreengrassReadVersion(r)
    \/ \E r \in {NoErr} \cup Errors : DirectDelete(r)

\* the handlers of all five resources
LifecycleSpec == Init /\ [][Next \/ DirectNext]_vars

(***************************************************************************)
(* Attribute codecs: the retention_period block (channel, datastore,       *)
(* dataset) and the versioning_configuration block (dataset).  Create and  *)
(* Update build the request structure from the configured block; Read      *)
(* flattens the structure the remote returns back into a block.            *)
(*                                                                         *)
(* A Go pointer is a sequence of length at most one (<<>> is nil), and a   *)
(* Go map is a record [isNil, m] whose m is a function on the keys it      *)
(* holds.                                                                  *)
(***************************************************************************)

MaxConfigured == 20

NilPtr == <<>>

Ptr(v) == <<v>>

NilMap == [isNil |-> TRUE, m |-> <<>>]

\* validation.IntAtLeast(1) on number_of_days and on max_versions
IntAtLeast == 1

\* The element of the configured block as the schema hands it to the
\* handler: every key of the block's schema is present, a key the
\* configuration leaves out holds its zero value.  The two keys conflict,
\* so a configuration sets exactly one of them.
RawRetentionPeriods ==
    { [number_of_days |-> n, unlimited |-> FALSE] : n \in IntAtLeast..MaxConfigured }
        \cup { [number_of_days |-> 0, unlimited |-> b] : b \in BOOLEAN }

RawVersioningConfigurations ==
    { [max_versions |-> n, unlimited |-> FALSE] : n \in IntAtLeast..MaxConfigured }
        \cup { [max_versions |-> 0, unlimited |-> b] : b \in BOOLEAN }

parseRetentionPeriod(rawRetentionPeriod) ==
    [ NumberOfDays |->
          IF "number_of_days" \in DOMAIN rawRetentionPeriod
                /\ rawRetentionPeriod["number_of_days"] > 1
          THEN Ptr(rawRetentionPeriod["number_of_days"])
          ELSE NilPtr,
      Unlimited |->
          IF "unlimited" \in DOMAIN rawRetentionPeriod
          THEN Ptr(rawRetentionPeriod["unlimited"])
          ELSE NilPtr ]

flattenRetentionPeriod(retentionPeriod) ==
    [ isNil |-> FALSE,
      m |-> [ k \in { "number_of_days" : x \in { 0 : y \in DOMAIN retentionPeriod.NumberOfDays } }
                      \cup { "unlimited" : x \in { 0 : y \in DOMAIN retentionPeriod.Unlimited } }
              |-> IF k = "number_of_days"
                  THEN retentionPeriod.NumberOfDays[1]
                  ELSE retentionPeriod.Unlimited[1] ] ]

parseVersioningConfiguration(rawVersioningConfiguration) ==
    [ MaxVersions |->
          IF "max_versions" \in DOMAIN rawVersioningConfiguration
                /\ rawVersioningConfiguration["max_versions"] > 1
          THEN Ptr(rawVersioningConfiguration["max_versions"])
          ELSE NilPtr,
      Unlimited |->
          IF "unlimited" \in DOMAIN rawVersioningConfiguration
          THEN Ptr(rawVersioningConfiguration["unlimited"])
          ELSE NilPtr ]

\* The argument is a pointer to the structure.
flattenVersioningConfiguration(versioningConfiguration) ==
    IF versioningConfiguration = NilPtr
    THEN NilMap
    ELSE [ isNil |-> FALSE,
           m |-> [ k \in { "max_versions" : x \in { 0 : y \in DOMAIN versioningConfiguration[1].MaxVersions } }
                           \cup { "unlimited" : x \in { 0 : y \in DOMAIN versioningConfiguration[1].Unlimited } }
                   |-> IF k = "max_versions"
                       THEN versioningConfiguration[1].MaxVersions[1]
                       ELSE versioningConfiguration[1].Unlimited[1] ] ]

wrapMapInList(mapping) ==
    IF mapping.isNil THEN <<>> ELSE <<mapping.m>>

\* aws.StringValue: the string a pointer points to, "" for nil
StringValue(p) == IF p = NilPtr THEN "" ELSE p[1]

\* The element of the configured storage block: each of the two kinds is a
\* list of at most one element, the two conflict, and both may be left out.
\* bucket and role_arn are required, key_prefix holds "" when it is left
\* out.
RawCustomerManagedS3s ==
    { [bucket |-> b, key_prefix |-> k, role_arn |-> a] :
          b \in {"bucket-1", "bucket-2"}, k \in {"", "prefix/"}, a \in {"role-1"} }

RawStorages ==
    { [customer_managed_s3 |-> <<>>, service_managed_s3 |-> <<>>],
      [customer_managed_s3 |-> <<>>, service_managed_s3 |-> << <<>> >>] }
        \cup { [customer_managed_s3 |-> <<c>>, service_managed_s3 |-> <<>>] :
                   c \in RawCustomerManagedS3s }

\* variant: the key prefix is sent even when it is empty
parseCustomerManagedS3KeepsEmptyPrefix(rawCustomerManagedS3) ==
    [ Bucket |-> Ptr(rawCustomerManagedS3["bucket"]),
      RoleArn |-> Ptr(rawCustomerManagedS3["role_arn"]),
      KeyPrefix |->
          IF "key_prefix" \in DOMAIN rawCustomerManagedS3
          THEN Ptr(rawCustomerManagedS3["key_prefix"])
          ELSE NilPtr ]

\* len(v.(string)) >= 1 is v # ""
parseCustomerManagedS3(rawCustomerManagedS3) ==
    [ Bucket |-> Ptr(rawCustomerManagedS3["bucket"]),
      RoleArn |-> Ptr(rawCustomerManagedS3["role_arn"]),
      KeyPrefix |->
          IF "key_prefix" \in DOMAIN rawCustomerManagedS3
                /\ rawCustomerManagedS3["key_prefix"] # ""
          THEN Ptr(rawCustomerManagedS3["key_prefix"])
          ELSE NilPtr ]

\* a structure without fields
parseServiceManagedS3(rawServiceManagedS3) == <<>>

parseStorage(rawChannelStorage) ==
    [ CustomerManagedS3 |->
          IF Len(rawChannelStorage["customer_managed_s3"]) > 0
          THEN Ptr(parseCustomerManagedS3(rawChannelStorage["customer_managed_s3"][1]))
          ELSE NilPtr,
      ServiceManagedS3 |->
          IF Len(rawChannelStorage["service_managed_s3"]) > 0
          THEN Ptr(parseServiceManagedS3(rawChannelStorage["service_managed_s3"][1]))
          ELSE NilPtr ]

flattenCustomerManagedS3(customerManagedS3) ==
    IF customerManagedS3 = NilPtr
    THEN NilMap
    ELSE [ isNil |-> FALSE,
           m |-> [ k \in {"bucket", "role_arn"}
                           \cup { "key_prefix" : x \in { 0 : y \in DOMAIN customerManagedS3[1].KeyPrefix } }
                   |-> CASE k = "bucket" -> StringValue(customerManagedS3[1].Bucket)
                         [] k = "role_arn" -> StringValue(customerManagedS3[1].RoleArn)
                         [] k = "key_prefix" -> StringValue(customerManagedS3[1].KeyPrefix) ] ]

flattenServiceManagedS3(serviceManagedS3) ==
    IF serviceManagedS3 = NilPtr
    THEN NilMap
    ELSE [isNil |-> FALSE, m |-> <<>>]

flattenStorage(channelStorage) ==
    IF /\ flattenCustomerManagedS3(channelStorage.CustomerManagedS3).isNil
       /\ flattenServiceManagedS3(channelStorage.ServiceManagedS3).isNil
    THEN NilMap
    ELSE [ isNil |-> FALSE,
           m |-> [ customer_managed_s3 |->
                       wrapMapInList(flattenCustomerManagedS3(channelStorage.CustomerManagedS3)),
                   service_managed_s3 |->
                       wrapMapInList(flattenServiceManagedS3(channelStorage.ServiceManagedS3)) ] ]

\* d.Get("storage").(*schema.Set).List() with one configured block
ConfigureStorage(raw) ==
    /\ cpc = "idle"
    /\ cpc' = "configured"
    /\ ckind' = "storage"
    /\ craw' = <<raw>>
    /\ UNCHANGED <<csent, cout>>
    /\ UNCHANGED hvars

\* Create / Update: params.ChannelStorage = parseStorage(rawChannelStorage)
BuildStorage ==
    /\ cpc = "configured"
    /\ ckind = "storage"
    /\ Len(craw) >= 1
    /\ csent' = Ptr(parseStorage(craw[1]))
    /\ cpc' = "sent"
    /\ UNCHANGED <<ckind, craw, cout>>
    /\ UNCHANGED hvars

\* Read: d.Set("storage", wrapMapInList(flattenStorage(out.Channel.Storage)))
\* on the structure the remote was sent
ReadStorage ==
    /\ cpc = "sent"
    /\ ckind = "storage"
    /\ cout' = wrapMapInList(flattenStorage(csent[1]))
    /\ cpc' = "read"
    /\ UNCHANGED <<ckind, craw, csent>>
    /\ UNCHANGED hvars

\* d.Get("retention_period").(*schema.Set).List() with one configured block
ConfigureRetentionPeriod(raw) ==
    /\ cpc = "idle"
    /\ cpc' = "configured"
    /\ ckind' = "retention_period"
    /\ craw' = <<raw>>
    /\ UNCHANGED <<csent, cout>>
    /\ UNCHANGED hvars

ConfigureVersioningConfiguration(raw) ==
    /\ cpc = "idle"
    /\ cpc' = "configured"
    /\ ckind' = "versioning_configuration"
    /\ craw' = <<raw>>
    /\ UNCHANGED <<csent, cout>>
    /\ UNCHANGED hvars

\* Create / Update: params.RetentionPeriod = parseRetentionPeriod(raw)
BuildRetentionPeriod ==
    /\ cpc = "configured"
    /\ ckind = "retention_period"
    /\ Len(craw) >= 1
    /\ csent' = Ptr(parseRetentionPeriod(craw[1]))
    /\ cpc' = "sent"
    /\ UNCHANGED <<ckind, craw, cout>>
    /\ UNCHANGED hvars

BuildVersioningConfiguration ==
    /\ cpc = "configured"
    /\ ckind = "versioning_configuration"
    /\ Len(craw) > 0
    /\ csent' = Ptr(parseVersioningConfiguration(craw[1]))
    /\ cpc' = "sent"
    /\ UNCHANGED <<ckind, craw, cout>>
    /\ UNCHANGED hvars

\* Read: the remote returns the structure it was sent
ReadRetentionPeriod ==
    /\ cpc = "sent"
    /\ ckind = "retention_period"
    /\ cout' = wrapMapInList(flattenRetentionPeriod(csent[1]))
    /\ cpc' = "read"
    /\ UNCHANGED <<ckind, craw, csent>>
    /\ UNCHANGED hvars

ReadVersioningConfiguration ==
    /\ cpc = "sent"
    /\ ckind = "versioning_configuration"
    /\ cout' = wrapMapInList(flattenVersioningConfiguration(csent))
    /\ cpc' = "read"
    /\ UNCHANGED <<ckind, craw, csent>>
    /\ UNCHANGED hvars

CodecNext ==
    \/ \E raw \in RawRetentionPeriods : ConfigureRetentionPeriod(raw)
    \/ \E raw \in RawVersioningConfigurations : ConfigureVersioningConfiguration(raw)
    \/ BuildRetentionPeriod
    \/ BuildVersioningConfiguration
    \/ ReadRetentionPeriod
    \/ ReadVersioningConfiguration
    \/ \E raw \in RawStorages : ConfigureStorage(raw)
    \/ BuildStorage
    \/ ReadStorage

CodecSpec == Init /\ [][CodecNext]_vars

\* every sequential step of the handler is taken once it is enabled, and every
\* remote call eventually returns
FairSpec ==
    /\ Spec
    /\ WF_vars(Invoke)
    /\ WF_vars(\E r \in {NoErr} \cup Errors : Return(r))
    /\ WF_vars(Sleep)
    /\ WF_vars(AfterLoop)

----------------------------------------------------------------------------
(* The retrier as the specification describes it *)

\* the delays between consecutive attempts
Delays == <<1, 2, 5, 8, 10>>

MaxAttempts == Len(Delays) + 1

Attempting == pc \in {"loop", "inflight", "sleep"}

\* the retry loop has been left
PostLoop == pc \in {"after", "read", "done"}

RetrierSuccess == PostLoop /\ err = NoErr

RetrierFailed == PostLoop /\ err # NoErr

NoSuccess(rs) == \A k \in 1..Len(rs) : rs[k] # NoErr

\* attempt k is the first one that succeeded
FirstSuccessAt(k) ==
    /\ Len(results) = k
    /\ results[k] = NoErr
    /\ \A j \in 1..(k - 1) : results[j] # NoErr

\* a new handler invocation begins with this step
NewInvocation == pc \in {"idle", "done"} /\ pc' = "loop"

\* two patterns do not disagree on any attempt both of them made
Compatible(p, q) ==
    \A k \in 1..(IF Len(p) < Len(q) THEN Len(p) ELSE Len(q)) : p[k] = q[k]

RetrierState ==
    IF pc = "idle" THEN <<"Idle", 0>>
    ELSE IF Attempting THEN <<"Attempting", i>>
    ELSE IF err = NoErr THEN <<"Success", 0>>
    ELSE <<"Failed", 0>>

----------------------------------------------------------------------------
(* Claims *)

\* C1: when the remote call fails on every attempt of a Create/Update, the
\* call was invoked exactly 6 times and the handler returns the error of the
\* 6th attempt.
C1_ExhaustedReturnsSixthError ==
    (pc = "done" /\ NoSuccess(results))
        => /\ calls = 6
           /\ Len(results) = 6
           /\ ret = results[6]

C1_Witness ==
    /\ pc = "done"
    /\ Len(results) = 6
    /\ NoSuccess(results)
    /\ results[1] # results[6]
    /\ results[5] # results[6]
    /\ ret = results[6]

\* C2: when the call first succeeds on attempt k (k in 1..6) the retrier
\* reports success after exactly k invocations, and its sleeps are exactly the
\* first k-1 delays of 1s, 2s, 5s, 8s, 10s in order.
C2_SuccessAtKSleepsFirstKMinus1 ==
    \A k \in 1..MaxAttempts :
        (PostLoop /\ FirstSuccessAt(k))
            => /\ err = NoErr
               /\ calls = k
               /\ slept = SubSeq(Delays, 1, k - 1)
               /\ clock = SumSeq(SubSeq(Delays, 1, k - 1))
               /\ k = 1 => clock = 0
               /\ k = 6 => clock = 26

C2_Witness ==
    /\ pc = "read"
    /\ FirstSuccessAt(6)
    /\ calls = 6
    /\ slept = <<1, 2, 5, 8, 10>>
    /\ clock = 26

\* C3: once an attempt has succeeded, the remote mutating call is not invoked
\* again and no sleep is performed in that run.
C3_StopsAtFirstSuccess ==
    [][(\E k \in 1..Len(results) : results[k] = NoErr)
          => \/ NewInvocation
             \/ /\ calls' = calls
                /\ slept' = slept
                /\ clock' = clock
                /\ results' = results]_vars

C3_Witness ==
    /\ pc = "done"
    /\ FirstSuccessAt(3)
    /\ calls = 3
    /\ slept = <<1, 2>>

\* C4: after failed attempt k (k in 1..5) the retrier waits exactly the k-th
\* delay of 1s, 2s, 5s, 8s, 10s before starting attempt k+1, and the last
\* entry of the schedule (0s) adds no wait around the 6th attempt.
C4_FixedDelaySchedule ==
    /\ \A k \in 1..Len(Delays) :
           Len(startedAt) >= k + 1
               => /\ results[k] # NoErr
                  /\ slept[k] = Delays[k]
                  /\ startedAt[k + 1] - startedAt[k] = Delays[k]
    /\ Len(startedAt) >= 1 => startedAt[1] = 0
    /\ Len(slept) >= MaxAttempts => slept[MaxAttempts] = 0 /\ clock = startedAt[MaxAttempts]

C4_Witness ==
    /\ pc = "inflight"
    /\ startedAt = <<0, 1, 3, 8, 16, 26>>
    /\ slept = Delays

\* C5: when the 6th attempt has returned, success or failure, no time passes
\* before the retrier hands its result to the handler.
C5_NoDelayAfterFinalAttempt ==
    Len(results) >= MaxAttempts
        => /\ clock = startedAt[MaxAttempts]
           /\ \A k \in MaxAttempts..Len(slept) : slept[k] = 0

C5_Witness ==
    /\ pc = "done"
    /\ Len(results) = 6
    /\ results[6] # NoErr
    /\ Len(slept) = 6
    /\ clock = 26

\* C6: the remote mutating call is invoked between 0 and 6 times in a run,
\* never a 7th time, and the retrier fails only after exactly 6 invocations.
C6_AtMostSixInvocations ==
    /\ calls \in 0..MaxAttempts
    /\ Len(results) <= calls
    /\ RetrierFailed => calls = MaxAttempts /\ Len(results) = MaxAttempts
    /\ (pc = "done" /\ err # NoErr) => ret = err

C6_Witness ==
    /\ pc = "done"
    /\ calls = 6
    /\ err # NoErr
    /\ ret = err

\* C7: the retrier does not look at the error value: two runs whose attempts
\* agree on success/failure, whatever the error values, make the same number
\* of invocations, sleep the same sequence and end with the same outcome.
C7_NoErrorIntrospection ==
    (prev # NoRun /\ PostLoop /\ Compatible(prev.pattern, Pattern(results)))
        => /\ prev.calls = calls
           /\ prev.slept = slept
           /\ (prev.err = NoErr) <=> (err = NoErr)

C7_Witness ==
    /\ prev # NoRun
    /\ pc = "done"
    /\ prev.pattern = Pattern(results)
    /\ Len(results) = 6
    /\ prev.err = "InvalidRequest"
    /\ err = "Throttling"
    /\ results[1] = "AccessDenied"
    /\ prev.calls = calls
    /\ prev.slept = slept

\* C8: if every remote call eventually returns, every run of the retrier ends
\* in Success or Failed; after a failed 6th attempt there is no further retry
\* and the run is Failed.
C8_RetrierTerminates ==
    /\ Attempting ~> (RetrierSuccess \/ RetrierFailed)
    /\ (Len(results) >= MaxAttempts /\ results[MaxAttempts] # NoErr) ~> RetrierFailed
    /\ []((Len(results) >= MaxAttempts /\ results[MaxAttempts] # NoErr)
            => calls = MaxAttempts /\ pc \notin {"loop", "inflight"})

C8_Witness ==
    /\ pc = "after"
    /\ Len(results) = 6
    /\ results[6] # NoErr
    /\ calls = 6
    /\ err = results[6]

\* new state of the retrier after a step from Attempting(n): Success when
\* attempt n succeeded, Attempting(n+1) when it failed and n < 6, Failed only
\* from Attempting(6)
LinearStep ==
    \/ RetrierState' = RetrierState
    \/ /\ NewInvocation
       /\ RetrierState' = <<"Attempting", 1>>
    \/ /\ RetrierState[1] = "Attempting"
       /\ RetrierState[2] < MaxAttempts
       /\ Len(results) = RetrierState[2]
       /\ results[RetrierState[2]] # NoErr
       /\ RetrierState' = <<"Attempting", RetrierState[2] + 1>>
    \/ /\ RetrierState[1] = "Attempting"
       /\ Len(results') = RetrierState[2]
       /\ results'[RetrierState[2]] = NoErr
       /\ RetrierState' = <<"Success", 0>>
    \/ /\ RetrierState = <<"Attempting", MaxAttempts>>
       /\ Len(results) = MaxAttempts
       /\ results[MaxAttempts] # NoErr
       /\ RetrierState' = <<"Failed", 0>>

\* C9: the retrier is a linear state machine: Attempting(n) is followed only
\* by Success or Attempting(n+1), Failed only follows Attempting(6), the
\* attempt index never decreases or skips, Success and Failed are terminal.
C9_LinearStateMachine == [][LinearStep]_vars

C9_Witness ==
    /\ RetrierState = <<"Failed", 0>>
    /\ pc = "done"
    /\ i = 7
    /\ calls = 6

\* C10: nothing is carried over from one invocation to the next: each starts
\* at attempt 1 with the whole schedule, two successive invocations with an
\* always-succeeding call make one call and no sleep each, and an invocation
\* after one that used up all 6 attempts gets 6 attempts again.
C10_NoStateAcrossInvocations ==
    /\ (pc = "loop" /\ calls = 0)
           => i = 1 /\ err = NoErr /\ clock = 0 /\ slept = <<>> /\ results = <<>>
    /\ (prev # NoRun /\ PostLoop /\ prev.pattern = <<TRUE>> /\ results = <<NoErr>>)
           => /\ prev.calls = 1 /\ prev.slept = <<>>
              /\ calls = 1 /\ slept = <<>>
    /\ (prev # NoRun /\ PostLoop /\ prev.calls = MaxAttempts /\ prev.err # NoErr
            /\ NoSuccess(results))
           => calls = MaxAttempts /\ slept = Append(Delays, 0)

C10_Witness ==
    /\ prev # NoRun
    /\ prev.calls = 6
    /\ prev.err # NoErr
    /\ pc = "done"
    /\ calls = 6
    /\ NoSuccess(results)
    /\ slept = <<1, 2, 5, 8, 10, 0>>

\* number of failed attempts among rs
Failures(rs) == Cardinality({k \in 1..Len(rs) : rs[k] # NoErr})

\* the remote calls of this run, by API
CallsOf(apis) == {k \in 1..Len(trace) : trace[k].api \in apis}

ReadApis ==
    {"DescribeChannel", "DescribeDatastore", "DescribeDataset", "GetGroup",
     "GetLoggerDefinition"}

\* C11: the cumulative sleep of a run is at most 1+2+5+8+10 = 26 seconds, and
\* it is 26 seconds exactly when attempts 1..5 all failed.
C11_CumulativeSleepAtMost26 ==
    /\ SumSeq(slept) <= 26
    /\ clock = SumSeq(slept)
    /\ SumSeq(slept) = 26
           => Len(results) >= 5 /\ \A k \in 1..5 : results[k] # NoErr
    /\ (PostLoop /\ Len(results) >= 5 /\ \A k \in 1..5 : results[k] # NoErr)
           => SumSeq(slept) = 26

C11_Witness ==
    /\ pc = "done"
    /\ Len(results) = 6
    /\ NoSuccess(results)
    /\ SumSeq(slept) = 26
    /\ Len(slept) = 6

\* C12: at most one attempt of the remote mutating call is in flight at any
\* time; attempt n+1 is issued only after attempt n has returned a failure
\* and the sleep scheduled for attempt n is over.
C12_OneAttemptInFlight ==
    /\ [](inflight \in {0, 1})
    /\ [](inflight = 1 <=> pc = "inflight")
    /\ [][(calls' = calls + 1)
            => /\ inflight = 0
               /\ Len(results) = calls
               /\ Len(slept) = calls
               /\ calls > 0 => results[calls] # NoErr]_vars

C12_Witness ==
    /\ pc = "inflight"
    /\ inflight = 1
    /\ calls = 4
    /\ Len(results) = 3
    /\ slept = <<1, 2, 5>>

\* C13: channel Create, channel Update, datastore Create and datastore Update
\* retry alike: the number of invocations, the sequence of sleeps and the
\* outcome depend on the sequence of results only, not on the handler.
C13_SameRetryInAllFourHandlers ==
    \A h \in RetriedHandlers :
        (handler = h /\ PostLoop)
            => /\ calls = Len(results)
               /\ slept = SubSeq(Append(Delays, 0), 1, Failures(results))
               /\ (err = NoErr) <=> (Failures(results) < Len(results))
               /\ Failures(results) \in {Len(results) - 1, MaxAttempts}

C13_Witness ==
    /\ handler = "DatastoreUpdate"
    /\ pc = "done"
    /\ FirstSuccessAt(5)
    /\ slept = <<1, 2, 5, 8>>
    /\ prev.pattern = Pattern(results)
    /\ prev.calls = calls
    /\ prev.slept = slept

\* C14: when all 6 attempts fail the handler returns the last error as it
\* is, Create leaves the resource ID unset, no read is issued and no success
\* is reported.
C14_PersistentErrorSurfacedVerbatim ==
    (pc = "done" /\ NoSuccess(results))
        => /\ ret = results[Len(results)]
           /\ ret \in Errors
           /\ handler \in CreateHandlers => id = NoId
           /\ CallsOf(ReadApis) = {}
           /\ Len(trace) = MaxAttempts

C14_Witness ==
    /\ pc = "done"
    /\ handler = "DatastoreCreate"
    /\ Len(results) = 6
    /\ NoSuccess(results)
    /\ id = NoId
    /\ ret = "AccessDenied"
    /\ results[5] = "Throttling"

----------------------------------------------------------------------------
(* Claims about the lifecycle handlers *)

MutatingApis ==
    {"CreateChannel", "UpdateChannel", "CreateDatastore", "UpdateDatastore",
     "CreateDataset", "UpdateDataset", "CreateGroup", "UpdateGroup",
     "CreateLoggerDefinition", "UpdateLoggerDefinition"}

VersionApis == {"CreateGroupVersion", "CreateLoggerDefinitionVersion"}

ReadVersionApis == {"GetGroupVersion", "GetLoggerDefinitionVersion"}

AllCreateHandlers == CreateHandlers \cup DirectCreateHandlers

\* the create/update call comes first (only failed attempts of it before a
\* further attempt), version creation directly follows its success, nothing
\* but the fetch of the version follows the read
OrderedCalls ==
    \A k \in 1..Len(trace) :
        /\ trace[k].api \in MutatingApis
               => \A j \in 1..(k - 1) :
                      trace[j].api = trace[k].api /\ trace[j].res # NoErr
        /\ trace[k].api \in VersionApis
               => /\ k > 1
                  /\ trace[k - 1].api \in MutatingApis
                  /\ trace[k - 1].res = NoErr
        /\ trace[k].api \in ReadApis
               => /\ k > 1
                  /\ trace[k - 1].api \in MutatingApis \cup VersionApis
                  /\ \A j \in (k + 1)..Len(trace) :
                         /\ j = k + 1
                         /\ trace[j].api \in ReadVersionApis
                         /\ trace[k].res = NoErr

\* C15 as stated: the create/update call succeeds before any version
\* creation, the read comes last, and the read is issued only if every
\* remote call the handler made before it succeeded.
C15_ReadOnlyAfterEveryCallSucceeded ==
    /\ OrderedCalls
    /\ \A k \in 1..Len(trace) :
           trace[k].api \in ReadApis
               => \A j \in 1..(k - 1) : trace[j].res = NoErr

\* C15, amended: as above, but the read is issued only if the call made
\* just before it (the last attempt of create/update, or the version
\* creation that followed its success) succeeded; failed attempts of a
\* retried create/update may precede.
C15_ReadOnlyAfterLastCallSucceeded ==
    /\ OrderedCalls
    /\ \A k \in 1..Len(trace) :
           trace[k].api \in ReadApis
               => /\ trace[k - 1].res = NoErr
                  /\ \A j \in 1..(k - 1) :
                         trace[j].res # NoErr => handler \in RetriedHandlers
                  /\ \A j \in 1..(k - 1) :
                         trace[j].api \in VersionApis => trace[j].res = NoErr

C15_Witness ==
    /\ handler = "GroupCreate"
    /\ pc = "done"
    /\ ret = NoErr
    /\ Len(trace) = 4
    /\ trace[1].api = "CreateGroup"
    /\ trace[2].api = "CreateGroupVersion"
    /\ trace[3].api = "GetGroup"
    /\ trace[4].api = "GetGroupVersion"

\* C16: after a successful Create the resource ID is the name (channel,
\* datastore, dataset) or the ID the remote create call returned (group,
\* logger definition), and the read that follows names exactly that ID.
C16_IdAfterCreate ==
    handler \in AllCreateHandlers
        => /\ \A k \in 1..Len(trace) :
                  trace[k].api \in ReadApis \cup ReadVersionApis
                      => trace[k].key = id /\ id # NoId
           /\ \A k \in 1..Len(trace) :
                  (trace[k].api \in MutatingApis /\ trace[k].res = NoErr
                      /\ pc \in {"version", "read", "ggread", "ggversion", "done"})
                      => id = IF handler \in {"GroupCreate", "LoggerDefinitionCreate"}
                              THEN trace[k].out
                              ELSE name
           /\ (\A k \in 1..Len(trace) :
                  trace[k].api \in MutatingApis => trace[k].res # NoErr)
                  => id = NoId

C16_Witness ==
    /\ handler = "GroupCreate"
    /\ pc = "done"
    /\ Len(trace) = 2
    /\ trace[1].out = "id-2"
    /\ id = "id-2"
    /\ trace[2].api = "GetGroup"
    /\ trace[2].key = "id-2"
    /\ ret = NoErr

\* C17: a version-creation call carries the value of the client-token
\* environment variable as its idempotency token if and only if the variable
\* is set and not empty; otherwise the request has no token.
C17_ClientTokenForwarded ==
    \A k \in 1..Len(trace) :
        trace[k].api \in VersionApis
            => /\ cfg.env \notin {Unset, ""} => trace[k].token = cfg.env
               /\ cfg.env \in {Unset, ""} => trace[k].token = Nil

C17_Witness ==
    /\ handler = "LoggerDefinitionUpdate"
    /\ cfg.env = "token-1"
    /\ Len(trace) = 2
    /\ trace[2].api = "CreateLoggerDefinitionVersion"
    /\ trace[2].token = "token-1"

\* C20: a Delete handler returns an error exactly when its remote delete
\* call returned one, and success exactly when the remote delete succeeded.
C20_DeleteReturnsRemoteResult ==
    (handler \in DeleteHandlers /\ pc = "done")
        => /\ Len(trace) = 1
           /\ (ret # NoErr) <=> (trace[1].res # NoErr)
           /\ ret = trace[1].res

(***************************************************************************)
(* Claims about the attribute codecs *)
(***************************************************************************)

\* C18: every retention_period the schema allows (number_of_days = n with
\* n >= 1, or unlimited = b) comes back from parseRetentionPeriod followed
\* by flattenRetentionPeriod with the number_of_days / unlimited that was
\* configured.
C18_RetentionPeriodRoundTrips ==
    (cpc = "read" /\ ckind = "retention_period")
        => /\ Len(cout) = 1
           /\ craw[1].number_of_days >= IntAtLeast
                => /\ "number_of_days" \in DOMAIN cout[1]
                   /\ cout[1]["number_of_days"] = craw[1].number_of_days
           /\ craw[1].number_of_days < IntAtLeast
                => /\ "unlimited" \in DOMAIN cout[1]
                   /\ cout[1]["unlimited"] = craw[1].unlimited

\* C19: every versioning_configuration the schema allows (max_versions = n
\* with n >= 1, or unlimited = b) comes back from
\* parseVersioningConfiguration followed by flattenVersioningConfiguration
\* with the max_versions / unlimited that was configured.
C19_VersioningConfigurationRoundTrips ==
    (cpc = "read" /\ ckind = "versioning_configuration")
        => /\ Len(cout) = 1
           /\ craw[1].max_versions >= IntAtLeast
                => /\ "max_versions" \in DOMAIN cout[1]
                   /\ cout[1]["max_versions"] = craw[1].max_versions
           /\ craw[1].max_versions < IntAtLeast
                => /\ "unlimited" \in DOMAIN cout[1]
                   /\ cout[1]["unlimited"] = craw[1].unlimited

(***************************************************************************)
(* Further claims about the retried handlers *)
(***************************************************************************)

\* the calls of the trace made through the retried request
RetriedCalls ==
    { k \in 1..Len(trace) :
          trace[k].api \in { MutatingApi(h) : h \in RetriedHandlers } }

\* C21: within one retried Create or Update the request is built once,
\* before the first attempt, and failed attempts and sleeps leave it as it
\* was built: every attempt of the run sends the same request.
C21_SameRequestEveryAttempt ==
    (handler \in RetriedHandlers /\ pc # "idle")
        => /\ params = BuildParams(handler, name)
           /\ \A k \in RetriedCalls :
                  /\ trace[k].api = params.api
                  /\ trace[k].key = params.name
                  /\ trace[k].token = Nil
           /\ \A k \in 1..Len(results) : k \in RetriedCalls

C21_Witness ==
    /\ handler = "DatastoreUpdate"
    /\ pc = "done"
    /\ Len(trace) = MaxAttempts
    /\ \A k \in 1..MaxAttempts :
           /\ trace[k].res # NoErr
           /\ trace[k].api = "UpdateDatastore"
           /\ trace[k].key = name
    /\ Len(slept) = MaxAttempts

(***************************************************************************)
(* Further claims about the Greengrass and dataset handlers *)
(***************************************************************************)

GreengrassCreateHandlers == {"GroupCreate", "LoggerDefinitionCreate"}

GreengrassUpdateHandlers == {"GroupUpdate", "LoggerDefinitionUpdate"}

\* C22: in Greengrass group and logger-definition Create the resource ID is
\* set once the remote create call has succeeded and before version
\* creation; when the version-creation call fails, Create returns that
\* error, the resource ID stays set and no read is issued.
C22_IdSetBeforeVersionCreation ==
    handler \in GreengrassCreateHandlers
        => /\ pc = "version"
                => /\ Len(trace) = 1
                   /\ trace[1].res = NoErr
                   /\ id = trace[1].out
                   /\ id \in Ids
           /\ \A k \in CallsOf(VersionApis) :
                  /\ k = 2
                  /\ trace[k].key = trace[1].out
                  /\ trace[k].res # NoErr
                        => /\ pc = "done"
                           /\ Len(trace) = k
                           /\ ret = trace[k].res
                           /\ id = trace[1].out
                           /\ id \in Ids

C22_Witness ==
    /\ handler = "GroupCreate"
    /\ pc = "done"
    /\ Len(trace) = 2
    /\ trace[1].api = "CreateGroup"
    /\ trace[1].out = "id-2"
    /\ trace[2].api = "CreateGroupVersion"
    /\ trace[2].res = "Throttling"
    /\ ret = "Throttling"
    /\ id = "id-2"

\* C23: in Greengrass group and logger-definition Update the remote update
\* call is the first call; a version-creation call is made only when the
\* version block has changed and only after the update call succeeded; when
\* the update call fails, neither version creation nor the read follows.
C23_UpdateThenVersionOnlyIfChanged ==
    (handler \in GreengrassUpdateHandlers /\ pc # "mutate")
        => /\ Len(trace) >= 1
           /\ trace[1].api = MutatingApi(handler)
           /\ CallsOf(MutatingApis) = {1}
           /\ \A k \in CallsOf(VersionApis) :
                  /\ cfg.changed
                  /\ k = 2
                  /\ trace[1].res = NoErr
           /\ trace[1].res # NoErr
                => /\ Len(trace) = 1
                   /\ pc = "done"
                   /\ ret = trace[1].res

C23_Witness ==
    /\ handler = "LoggerDefinitionUpdate"
    /\ cfg.changed
    /\ cfg.version
    /\ pc = "done"
    /\ Len(trace) = 3
    /\ trace[1].api = "UpdateLoggerDefinition"
    /\ trace[2].api = "CreateLoggerDefinitionVersion"
    /\ trace[3].api = "GetLoggerDefinition"
    /\ ret = NoErr

\* C24: with an empty version block, version creation makes no remote call
\* and reports success: Create goes from the successful remote create call
\* straight to the read.
C24_EmptyVersionBlockSkipsCall ==
    (handler \in GreengrassCreateHandlers /\ ~cfg.version)
        => /\ CallsOf(VersionApis) = {}
           /\ Len(trace) >= 2 => trace[2].api = ReadApi(handler)
           /\ (pc = "done" /\ Len(trace) >= 1 /\ trace[1].res = NoErr)
                => /\ Len(trace) >= 2
                   /\ ret = trace[Len(trace)].res

C24_Witness ==
    /\ handler = "GroupCreate"
    /\ ~cfg.version
    /\ pc = "done"
    /\ Len(trace) = 2
    /\ trace[1].api = "CreateGroup"
    /\ trace[1].res = NoErr
    /\ trace[2].api = "GetGroup"
    /\ trace[2].res = NoErr
    /\ ret = NoErr

\* C25: only the channel and datastore mutations are retried.  The dataset
\* create/update call, the Greengrass create/update call and the Greengrass
\* version-creation call are each made at most once in a handler run, never
\* after a sleep, and when one of them fails the handler returns its error
\* without a further call.
C25_SingleAttemptOutsideChannelAndDatastore ==
    handler \in DatasetHandlers \cup GreengrassHandlers
        => /\ Cardinality(CallsOf(MutatingApis)) <= 1
           /\ Cardinality(CallsOf(VersionApis)) <= 1
           /\ slept = <<>>
           /\ calls = 0
           /\ \A k \in CallsOf(MutatingApis \cup VersionApis) :
                  trace[k].res # NoErr
                      => /\ Len(trace) = k
                         /\ pc = "done"
                         /\ ret = trace[k].res

C25_Witness ==
    /\ handler = "DatasetUpdate"
    /\ pc = "done"
    /\ Len(trace) = 1
    /\ trace[1].api = "UpdateDataset"
    /\ trace[1].res = "Throttling"
    /\ ret = "Throttling"

(***************************************************************************)
(* Claims about the Read handlers *)
(***************************************************************************)

\* the step is a describe/get call of a Read handler returning
ReadCallReturns ==
    /\ pc \in {"read", "ggread"}
    /\ Len(trace') = Len(trace) + 1
    /\ trace'[Len(trace')].api \in ReadApis

\* C26: when the describe/get call of a Read handler fails, Read returns
\* that error and every attribute of the resource state, its ID included,
\* is what it was before the call.
C26_FailedReadLeavesStateUnchanged ==
    [][(ReadCallReturns /\ trace'[Len(trace')].res # NoErr)
          => /\ ret' = trace'[Len(trace')].res
             /\ pc' = "done"
             /\ attrs' = attrs
             /\ id' = id
             /\ name' = name
             /\ group_id' = group_id]_vars

C26_Witness ==
    /\ handler = "GroupCreate"
    /\ pc = "done"
    /\ Len(trace) = 2
    /\ trace[2].api = "GetGroup"
    /\ trace[2].res = "AccessDenied"
    /\ ret = "AccessDenied"
    /\ attrs = PriorAttrs
    /\ group_id = NoId
    /\ id \in Ids

\* C27: Greengrass group and logger-definition Read fetch the version only
\* when the get call reported a latest version.  When it reported none, no
\* version call is made, the version attributes stay as they were and Read
\* succeeds; when the version call fails, Read returns that error.
C27_VersionFetchedOnlyIfReported ==
    handler \in GreengrassHandlers
        => /\ \A k \in CallsOf(ReadVersionApis) :
                  /\ k > 1
                  /\ trace[k - 1].api = ReadApi(handler)
                  /\ trace[k - 1].res = NoErr
                  /\ trace[k - 1].out \in Versions
                  /\ trace[k].res # NoErr
                        => /\ pc = "done"
                           /\ ret = trace[k].res
           /\ \A k \in CallsOf(ReadApis) :
                  (trace[k].res = NoErr /\ trace[k].out = Nil)
                      => /\ Len(trace) = k
                         /\ pc = "done"
                         /\ ret = NoErr
                         /\ attrs.version = Prior
           /\ \A k \in CallsOf(ReadApis) :
                  (trace[k].res = NoErr /\ trace[k].out \in Versions /\ pc = "done")
                      => /\ Len(trace) = k + 1
                         /\ trace[k + 1].api = ReadVersionApi(handler)

C27_Witness ==
    /\ handler = "LoggerDefinitionUpdate"
    /\ pc = "done"
    /\ Len(trace) = 3
    /\ trace[2].api = "GetLoggerDefinition"
    /\ trace[2].out = "version-1"
    /\ trace[3].api = "GetLoggerDefinitionVersion"
    /\ trace[3].res = "Throttling"
    /\ ret = "Throttling"
    /\ attrs = [described |-> Remote, version |-> Prior]

(***************************************************************************)
(* Claims about the storage codec *)
(***************************************************************************)

\* C28: parseStorage followed by flattenStorage keeps which of
\* customer_managed_s3 / service_managed_s3 is present, each a list of at
\* most one element; for customer_managed_s3 it keeps bucket, role_arn and a
\* non-empty key_prefix, while an empty key_prefix is left out of the
\* request and is absent after the round trip; with neither kind present
\* there is no storage block after the round trip.
C28_StorageRoundTrips ==
    (cpc = "read" /\ ckind = "storage")
        => IF craw[1].customer_managed_s3 = <<>> /\ craw[1].service_managed_s3 = <<>>
           THEN cout = <<>>
           ELSE /\ Len(cout) = 1
                /\ Len(cout[1].customer_managed_s3) = Len(craw[1].customer_managed_s3)
                /\ Len(cout[1].service_managed_s3) = Len(craw[1].service_managed_s3)
                /\ Len(cout[1].customer_managed_s3) <= 1
                /\ Len(cout[1].service_managed_s3) <= 1
                /\ craw[1].customer_managed_s3 # <<>>
                     => /\ cout[1].customer_managed_s3[1]["bucket"]
                              = craw[1].customer_managed_s3[1]["bucket"]
                        /\ cout[1].customer_managed_s3[1]["role_arn"]
                              = craw[1].customer_managed_s3[1]["role_arn"]
                        /\ IF craw[1].customer_managed_s3[1]["key_prefix"] # ""
                           THEN /\ "key_prefix" \in DOMAIN cout[1].customer_managed_s3[1]
                                /\ cout[1].customer_managed_s3[1]["key_prefix"]
                                      = craw[1].customer_managed_s3[1]["key_prefix"]
                           ELSE /\ csent[1].CustomerManagedS3[1].KeyPrefix = NilPtr
                                /\ "key_prefix" \notin DOMAIN cout[1].customer_managed_s3[1]

C28_Witness ==
    /\ cpc = "read"
    /\ ckind = "storage"
    /\ craw[1].customer_managed_s3 # <<>>
    /\ craw[1].customer_managed_s3[1]["bucket"] = "bucket-2"
    /\ craw[1].customer_managed_s3[1]["key_prefix"] = ""
    /\ Len(cout) = 1
    /\ cout[1].customer_managed_s3[1]["bucket"] = "bucket-2"
    /\ DOMAIN cout[1].customer_managed_s3[1] = {"bucket", "role_arn"}

====
